---- MODULE Spec2Model ----
(***************************************************************************)
(* Category hierarchy engine of the stockwise backend                      *)
(* (CategoryService, with the parts of ProductService and of the schema    *)
(* that decide whether a category may be deleted).                         *)
(*                                                                         *)
(* The relational store is a pair of tables: categories (id -> row) and    *)
(* products (id -> row).  Spec and StoreSpec run every service call         *)
(* atomically; RaceSpec runs create, update and delete one awaited query   *)
(* at a time, so that the queries of concurrent requests interleave.       *)
(***************************************************************************)
EXTENDS Integers, FiniteSets, Sequences, TLC

\* ---------------------------------------------------------------- bounds
\* category ids the serial column hands out in a run of the category engine
MaxId == 3
\* category ids handed out in a run that also creates products
MaxIdWithProducts == 2
\* product ids the serial column hands out in a run
MaxProducts == 1
\* rows a tenant has created before its concurrent requests arrive
MaxRaceId == 2
\* requests served concurrently in a run
MaxRequests == 2
\* category ids handed out in a run whose callers carry roles
MaxGateId == 2
\* write statements (insert, update) in a run that records their timestamps
MaxClock == 3

\* ---------------------------------------------------------- input domains
Tenants == {"tA", "tB"}
Names == {"Laptops", "Phones"}
Descriptions == {"d"}

\* SQL NULL / JS null in the integer column parent_id
Null == -1
\* SQL NULL in the varchar column description
NoDescription == "<null>"
\* a key the input object does not carry (JS undefined)
Undefined == -2
UndefinedText == "<undefined>"

CategoryIds == 1..MaxId
ProductIds == 1..MaxProducts

VARIABLES
    categories,     \* table categories: [id -> row], DOMAIN = ids of the rows
    nextCategoryId, \* next value of categories.id (serial)
    products,       \* table products: [id -> row]
    nextProductId,  \* next value of products.id (serial)
    requests,       \* the requests served one query at a time, in order of
                    \* arrival: what each has read so far, and how it ended
    timestamps,     \* columns created_at and updated_at of categories:
                    \* [id -> stamps], kept by StampSpec only
    clock           \* the time the next write statement reads

vars == <<categories, nextCategoryId, products, nextProductId, requests,
          timestamps, clock>>

\* ------------------------------------------------------------- outcomes
\* the message of the Error each service method throws, or "ok"
Ok == "ok"
CategoryNotFound == "Category not found"
OwnParent == "Category cannot be its own parent"
ParentNotFound == "Parent category not found or does not belong to your organization"
Circular == "Cannot create circular category reference"
DuplicateName == "Category with this name already exists at this level"
HasProducts == "Cannot delete category with N products. Move or delete products first."
HasSubcategories == "Cannot delete category with N subcategories. Delete subcategories first."
FailedToUpdate == "Failed to update category"
ForeignKeyViolation == "violates foreign key constraint products_category_id_categories_id_fk"
ProductNotFound == "Product not found"
ProductCategoryNotFound == "Category not found or does not belong to your organization"
\* the call never returns (an ancestor walk that does not end)
Hangs == "<no return>"

\* the error kind (NotFound, Conflict, StorageFailure) each message stands for
Kind(outcome) ==
    CASE outcome = Ok -> "Ok"
      [] outcome \in {CategoryNotFound, ParentNotFound, ProductNotFound,
                      ProductCategoryNotFound} -> "NotFound"
      [] outcome \in {OwnParent, Circular, DuplicateName, HasProducts,
                      HasSubcategories} -> "Conflict"
      [] outcome \in {FailedToUpdate, ForeignKeyViolation} -> "StorageFailure"
      [] OTHER -> "None"

\* JS truthiness of an optional integer: undefined, null and 0 are falsy
Truthy(x) == x # Null /\ x # 0

\* ---------------------------------------------------------- record store
\* (variant) the lookup without the tenant condition
findCategory_anyTenant(cats, id, tenantId) ==
    {c \in DOMAIN cats : c = id}

\* db.query.categories.findFirst({ where: and(eq(id), eq(tenantId)) })
findCategory(cats, id, tenantId) ==
    {c \in DOMAIN cats : c = id /\ cats[c].tenantId = tenantId}

\* count(products.id) of the left join on category_id with deleted_at null
productCount(prods, id) ==
    Cardinality({p \in DOMAIN prods :
                    prods[p].categoryId = id /\ ~prods[p].deleted})

\* (variant) the select on the parent_id of the category itself: the rows
\* beside it, not below it
childrenOf_siblings(cats, id) == {c \in DOMAIN cats : cats[c].parentId = cats[id].parentId}

\* select ... from categories where parent_id = id  (no tenant filter)
childrenOf(cats, id) == {c \in DOMAIN cats : cats[c].parentId = id}

\* rows of products that reference the category, deleted or not: the rows
\* the foreign key products.category_id -> categories.id (no action) protects
referencingProducts(prods, id) ==
    {p \in DOMAIN prods : prods[p].categoryId = id}

\* ------------------------------------------------------ CategoryService
\* what a service call gives back: the thrown message or "ok", the number a
\* deletion message carries, the returned value, and the tables afterwards
Result(outcome, count, value, cats) ==
    [outcome |-> outcome, count |-> count, value |-> value, categories |-> cats]

\* Check circular reference helper (the creation-time check)
checkCircularReference(cats, parentId, tenantId) == FALSE

\* (variant) the sibling lookup without the parent condition: a name is
\* taken once any category of the tenant carries it
existingCategory_anyLevel(cats, data, tenantId) ==
    {c \in DOMAIN cats :
        /\ cats[c].name = data.name
        /\ cats[c].tenantId = tenantId}

\* the sibling lookup of createCategory
existingCategory(cats, data, tenantId) ==
    {c \in DOMAIN cats :
        /\ cats[c].name = data.name
        /\ cats[c].tenantId = tenantId
        /\ IF Truthy(data.parentId) /\ data.parentId # Undefined
             THEN cats[c].parentId = data.parentId
             ELSE cats[c].parentId = Null}

\* the row db.insert(categories).values({...data, tenantId}) stores
insertedRow(data, tenantId) ==
    [tenantId |-> tenantId,
     name |-> data.name,
     description |-> IF data.description = UndefinedText
                       THEN NoDescription ELSE data.description,
     parentId |-> IF data.parentId = Undefined THEN Null ELSE data.parentId]

\* (variant) creation that does not look the parent up
createCategory_parentUnchecked(cats, data, tenantId, newId) ==
    IF existingCategory(cats, data, tenantId) # {}
      THEN Result(DuplicateName, 0, <<>>, cats)
    ELSE Result(Ok, 0, <<[id |-> newId, name |-> data.name]>>,
                [c \in DOMAIN cats \cup {newId} |->
                    IF c = newId THEN insertedRow(data, tenantId) ELSE cats[c]])

\* Create category; newId is the value the serial column assigns
createCategory(cats, data, tenantId, newId) ==
    IF /\ Truthy(data.parentId) /\ data.parentId # Undefined
       /\ findCategory(cats, data.parentId, tenantId) = {}
      THEN Result(ParentNotFound, 0, <<>>, cats)
    ELSE IF /\ Truthy(data.parentId) /\ data.parentId # Undefined
            /\ checkCircularReference(cats, data.parentId, tenantId)
      THEN Result(Circular, 0, <<>>, cats)
    ELSE IF existingCategory(cats, data, tenantId) # {}
      THEN Result(DuplicateName, 0, <<>>, cats)
    ELSE Result(Ok, 0, <<[id |-> newId, name |-> data.name]>>,
                [c \in DOMAIN cats \cup {newId} |->
                    IF c = newId THEN insertedRow(data, tenantId) ELSE cats[c]])

\* Get single category with details
getCategoryById(cats, prods, id, tenantId) ==
    IF findCategory(cats, id, tenantId) = {}
      THEN [outcome |-> CategoryNotFound]
      ELSE [outcome |-> Ok,
            id |-> id,
            name |-> cats[id].name,
            description |-> cats[id].description,
            parentId |-> cats[id].parentId,
            productCount |-> productCount(prods, id),
            parentName |->
                IF Truthy(cats[id].parentId) /\ cats[id].parentId \in DOMAIN cats
                  THEN cats[cats[id].parentId].name ELSE "<null>",
            children |-> {[id |-> c, name |-> cats[c].name] : c \in childrenOf(cats, id)}]

\* the ancestor walk of wouldCreateCircularReference, from currentId upward;
\* visited holds the ids the loop has already looked up: meeting one again
\* means the loop never ends
RECURSIVE circularWalk(_, _, _, _, _)
circularWalk(cats, categoryId, currentId, tenantId, visited) ==
    IF currentId = Null THEN [returns |-> TRUE, value |-> FALSE]
    ELSE IF currentId = categoryId THEN [returns |-> TRUE, value |-> TRUE]
    ELSE IF currentId \in visited THEN [returns |-> FALSE, value |-> FALSE]
    ELSE LET parent == findCategory(cats, currentId, tenantId)
             next == IF parent # {} /\ Truthy(cats[currentId].parentId)
                       THEN cats[currentId].parentId ELSE Null
         IN circularWalk(cats, categoryId, next, tenantId, visited \cup {currentId})

\* (variant) the walk with its two ids exchanged: from the category upward,
\* looking for the new parent
wouldCreateCircularReference_exchanged(cats, categoryId, newParentId, tenantId) ==
    circularWalk(cats, newParentId, categoryId, tenantId, {})

\* (variant) an "if" in place of the "while": the new parent and its parent
\* are compared with the category, nothing above them
wouldCreateCircularReference_oneLevel(cats, categoryId, newParentId, tenantId) ==
    [returns |-> TRUE,
     value |-> \/ newParentId = categoryId
               \/ /\ findCategory(cats, newParentId, tenantId) # {}
                  /\ cats[newParentId].parentId = categoryId]

\* (variant) the walk run in both directions: a cycle is also reported when
\* the new parent is an ancestor of the category
wouldCreateCircularReference_eitherWay(cats, categoryId, newParentId, tenantId) ==
    LET up == circularWalk(cats, categoryId, newParentId, tenantId, {})
        down == circularWalk(cats, newParentId, categoryId, tenantId, {})
    IN [returns |-> up.returns /\ down.returns, value |-> up.value \/ down.value]

\* Check if moving category would create circular reference
wouldCreateCircularReference(cats, categoryId, newParentId, tenantId) ==
    circularWalk(cats, categoryId, newParentId, tenantId, {})

\* the query of the sibling lookup of updateCategory
duplicateAt(cats, id, name, targetParentId, tenantId) ==
    {c \in DOMAIN cats :
        /\ cats[c].name = name
        /\ cats[c].tenantId = tenantId
        /\ IF Truthy(targetParentId)
             THEN cats[c].parentId = targetParentId
             ELSE cats[c].parentId = Null
        /\ c # id}

\* (variant) the sibling lookup at the parent the category has now, whatever
\* parent the patch carries
duplicate_currentParent(cats, id, data, tenantId) ==
    duplicateAt(cats, id, data.name, cats[id].parentId, tenantId)

\* the sibling lookup of updateCategory, at the resulting parent
duplicate(cats, id, data, tenantId) ==
    duplicateAt(cats, id, data.name,
                IF data.parentId # Undefined THEN data.parentId
                                             ELSE cats[id].parentId,
                tenantId)

\* whether updateCategory runs the sibling lookup
nameIsChanging(cats, id, data) ==
    data.name # UndefinedText /\ data.name # cats[id].name

\* (variant) a set clause that drops a null parentId like an absent one
updatedRow_nullKeepsParent(row, data) ==
    [tenantId |-> row.tenantId,
     name |-> IF data.name = UndefinedText THEN row.name ELSE data.name,
     description |-> IF data.description = UndefinedText
                       THEN row.description ELSE data.description,
     parentId |-> IF data.parentId = Undefined \/ data.parentId = Null
                    THEN row.parentId ELSE data.parentId]

\* the row after db.update(categories).set({...data, updatedAt})
updatedRow(row, data) ==
    [tenantId |-> row.tenantId,
     name |-> IF data.name = UndefinedText THEN row.name ELSE data.name,
     description |-> IF data.description = UndefinedText
                       THEN row.description ELSE data.description,
     parentId |-> IF data.parentId = Undefined THEN row.parentId ELSE data.parentId]

\* db.update(categories).set(...).where(and(eq(id), eq(tenantId))).returning()
updateRows(cats, id, data, tenantId) ==
    [c \in DOMAIN cats |->
        IF c = id /\ cats[c].tenantId = tenantId
          THEN updatedRow(cats[c], data) ELSE cats[c]]

\* (variant) the validation without the throw for parentId = id
validateParent_ownParentAllowed(cats, id, data, tenantId) ==
    IF data.parentId = Undefined \/ data.parentId = Null THEN Ok
    ELSE IF data.parentId = id THEN Ok
    ELSE IF findCategory(cats, data.parentId, tenantId) = {} THEN ParentNotFound
    ELSE LET walk == wouldCreateCircularReference(cats, id, data.parentId, tenantId)
         IN IF ~walk.returns THEN Hangs
            ELSE IF walk.value THEN Circular ELSE Ok

\* the parent validation of updateCategory: the message it throws, or "ok"
validateParent(cats, id, data, tenantId) ==
    IF data.parentId = Undefined \/ data.parentId = Null THEN Ok
    ELSE IF data.parentId = id THEN OwnParent
    ELSE IF findCategory(cats, data.parentId, tenantId) = {} THEN ParentNotFound
    ELSE LET walk == wouldCreateCircularReference(cats, id, data.parentId, tenantId)
         IN IF ~walk.returns THEN Hangs
            ELSE IF walk.value THEN Circular ELSE Ok

\* (variant) the update that writes the row first and looks for a
\* same-named sibling afterwards
updateCategory_writesBeforeNameCheck(cats, prods, id, data, tenantId) ==
    IF getCategoryById(cats, prods, id, tenantId).outcome # Ok
      THEN Result(CategoryNotFound, 0, <<>>, cats)
    ELSE IF validateParent(cats, id, data, tenantId) # Ok
      THEN Result(validateParent(cats, id, data, tenantId), 0, <<>>, cats)
    ELSE IF nameIsChanging(cats, id, data) /\ duplicate(cats, id, data, tenantId) # {}
      THEN Result(DuplicateName, 0, <<>>, updateRows(cats, id, data, tenantId))
    ELSE LET after == updateRows(cats, id, data, tenantId)
         IN Result(Ok, 0, <<[id |-> id, name |-> after[id].name]>>, after)

\* (variant) the update that looks for a same-named sibling whenever the
\* patch carries a name, with the lookup of createCategory (the category
\* itself is not excluded)
updateCategory_nameAlwaysChecked(cats, prods, id, data, tenantId) ==
    IF getCategoryById(cats, prods, id, tenantId).outcome # Ok
      THEN Result(CategoryNotFound, 0, <<>>, cats)
    ELSE IF validateParent(cats, id, data, tenantId) # Ok
      THEN Result(validateParent(cats, id, data, tenantId), 0, <<>>, cats)
    ELSE IF /\ data.name # UndefinedText
            /\ existingCategory(cats,
                                [data EXCEPT !.parentId =
                                    IF data.parentId # Undefined
                                      THEN data.parentId ELSE cats[id].parentId],
                                tenantId) # {}
      THEN Result(DuplicateName, 0, <<>>, cats)
    ELSE LET after == updateRows(cats, id, data, tenantId)
         IN Result(Ok, 0, <<[id |-> id, name |-> after[id].name]>>, after)

\* Update category
updateCategory(cats, prods, id, data, tenantId) ==
    IF getCategoryById(cats, prods, id, tenantId).outcome # Ok
      THEN Result(CategoryNotFound, 0, <<>>, cats)
    ELSE IF validateParent(cats, id, data, tenantId) # Ok
      THEN Result(validateParent(cats, id, data, tenantId), 0, <<>>, cats)
    ELSE IF nameIsChanging(cats, id, data) /\ duplicate(cats, id, data, tenantId) # {}
      THEN Result(DuplicateName, 0, <<>>, cats)
    ELSE IF findCategory(cats, id, tenantId) = {}
      THEN Result(FailedToUpdate, 0, <<>>, cats)
    ELSE LET after == updateRows(cats, id, data, tenantId)
         IN Result(Ok, 0, <<[id |-> id, name |-> after[id].name]>>, after)

\* (variant) a move with a write of its own: the parent is stored for any
\* category of the tenant, without the validation of updateCategory
moveCategory_unvalidated(cats, prods, id, newParentId, tenantId) ==
    IF findCategory(cats, id, tenantId) = {}
      THEN Result(CategoryNotFound, 0, <<>>, cats)
      ELSE Result(Ok, 0, <<[id |-> id, name |-> cats[id].name]>>,
                  [cats EXCEPT ![id].parentId = newParentId])

\* Move category to new parent
moveCategory(cats, prods, id, newParentId, tenantId) ==
    updateCategory(cats, prods, id,
                   [name |-> UndefinedText, description |-> UndefinedText,
                    parentId |-> newParentId],
                   tenantId)

\* db.delete(categories).where(and(eq(id), eq(tenantId)))
deleteRows(cats, id, tenantId) ==
    [c \in DOMAIN cats \ findCategory(cats, id, tenantId) |-> cats[c]]

\* (variant) deletion that does not look at the children
deleteCategory_noChildrenCheck(cats, prods, id, tenantId) ==
    LET category == getCategoryById(cats, prods, id, tenantId)
    IN IF category.outcome # Ok
         THEN Result(CategoryNotFound, 0, <<>>, cats)
       ELSE IF category.productCount > 0
         THEN Result(HasProducts, category.productCount, <<>>, cats)
       ELSE IF referencingProducts(prods, id) # {}
         THEN Result(ForeignKeyViolation, 0, <<>>, cats)
       ELSE Result(Ok, 0, <<[id |-> id, name |-> category.name]>>,
                   deleteRows(cats, id, tenantId))

\* (variant) deletion that looks at the children before the products
deleteCategory_childrenFirst(cats, prods, id, tenantId) ==
    LET category == getCategoryById(cats, prods, id, tenantId)
    IN IF category.outcome # Ok
         THEN Result(CategoryNotFound, 0, <<>>, cats)
       ELSE IF Cardinality(category.children) > 0
         THEN Result(HasSubcategories, Cardinality(category.children), <<>>, cats)
       ELSE IF category.productCount > 0
         THEN Result(HasProducts, category.productCount, <<>>, cats)
       ELSE IF referencingProducts(prods, id) # {}
         THEN Result(ForeignKeyViolation, 0, <<>>, cats)
       ELSE Result(Ok, 0, <<[id |-> id, name |-> category.name]>>,
                   deleteRows(cats, id, tenantId))

\* Delete category
deleteCategory(cats, prods, id, tenantId) ==
    LET category == getCategoryById(cats, prods, id, tenantId)
    IN IF category.outcome # Ok
         THEN Result(CategoryNotFound, 0, <<>>, cats)
       ELSE IF category.productCount > 0
         THEN Result(HasProducts, category.productCount, <<>>, cats)
       ELSE IF Cardinality(category.children) > 0
         THEN Result(HasSubcategories, Cardinality(category.children), <<>>, cats)
       ELSE IF referencingProducts(prods, id) # {}
         THEN Result(ForeignKeyViolation, 0, <<>>, cats)
       ELSE Result(Ok, 0, <<[id |-> id, name |-> category.name]>>,
                   deleteRows(cats, id, tenantId))

\* (variant) the walk that appends each category to the breadcrumb (push in
\* place of unshift)
RECURSIVE pathWalk_appended(_, _, _, _, _)
pathWalk_appended(cats, currentId, tenantId, path, visited) ==
    IF currentId = Null THEN [returns |-> TRUE, value |-> path]
    ELSE IF findCategory(cats, currentId, tenantId) = {}
      THEN [returns |-> TRUE, value |-> path]
    ELSE IF currentId \in visited THEN [returns |-> FALSE, value |-> <<>>]
    ELSE pathWalk_appended(cats, cats[currentId].parentId, tenantId,
                           path \o <<[id |-> currentId, name |-> cats[currentId].name]>>,
                           visited \cup {currentId})

\* (variant) the walk that starts at any row with the id, whatever its tenant
RECURSIVE pathWalk_anyTenant(_, _, _, _, _)
pathWalk_anyTenant(cats, currentId, tenantId, path, visited) ==
    IF currentId = Null THEN [returns |-> TRUE, value |-> path]
    ELSE IF currentId \notin DOMAIN cats
      THEN [returns |-> TRUE, value |-> path]
    ELSE IF currentId \in visited THEN [returns |-> FALSE, value |-> <<>>]
    ELSE pathWalk_anyTenant(cats, cats[currentId].parentId, tenantId,
                            <<[id |-> currentId, name |-> cats[currentId].name]>> \o path,
                            visited \cup {currentId})

\* the ancestor walk of getCategoryPath: the breadcrumb built so far is path
RECURSIVE pathWalk(_, _, _, _, _)
pathWalk(cats, currentId, tenantId, path, visited) ==
    IF currentId = Null THEN [returns |-> TRUE, value |-> path]
    ELSE IF findCategory(cats, currentId, tenantId) = {}
      THEN [returns |-> TRUE, value |-> path]
    ELSE IF currentId \in visited THEN [returns |-> FALSE, value |-> <<>>]
    ELSE pathWalk(cats, cats[currentId].parentId, tenantId,
                  <<[id |-> currentId, name |-> cats[currentId].name]>> \o path,
                  visited \cup {currentId})

\* Get category path (breadcrumb)
getCategoryPath(cats, id, tenantId) == pathWalk(cats, id, tenantId, <<>>, {})

\* ------------------------------------------------------- ProductService
\* getProductById: the product of the tenant that is not soft-deleted
findProduct(prods, id, tenantId) ==
    {p \in DOMAIN prods :
        p = id /\ prods[p].tenantId = tenantId /\ ~prods[p].deleted}

\* Create product (with a SKU no other product of the tenant has)
createProduct(cats, prods, categoryId, tenantId, newId) ==
    IF Truthy(categoryId) /\ findCategory(cats, categoryId, tenantId) = {}
      THEN [outcome |-> ProductCategoryNotFound, products |-> prods]
      ELSE [outcome |-> Ok,
            products |-> [p \in DOMAIN prods \cup {newId} |->
                IF p = newId
                  THEN [tenantId |-> tenantId, categoryId |-> categoryId,
                        deleted |-> FALSE]
                  ELSE prods[p]]]

\* Update product: the category is the only column of interest here
updateProduct(cats, prods, id, categoryId, tenantId) ==
    IF findProduct(prods, id, tenantId) = {}
      THEN [outcome |-> ProductNotFound, products |-> prods]
    ELSE IF Truthy(categoryId) /\ findCategory(cats, categoryId, tenantId) = {}
      THEN [outcome |-> ProductCategoryNotFound, products |-> prods]
    ELSE [outcome |-> Ok,
          products |-> [p \in DOMAIN prods |->
              IF p = id /\ prods[p].tenantId = tenantId
                THEN [prods[p] EXCEPT !.categoryId = categoryId]
                ELSE prods[p]]]

\* Soft delete product: deleted_at is set, category_id is kept
deleteProduct(prods, id, tenantId) ==
    IF findProduct(prods, id, tenantId) = {}
      THEN [outcome |-> ProductNotFound, products |-> prods]
      ELSE [outcome |-> Ok,
            products |-> [p \in DOMAIN prods |->
                IF p = id /\ prods[p].tenantId = tenantId
                  THEN [prods[p] EXCEPT !.deleted = TRUE]
                  ELSE prods[p]]]

\* ------------------------------------------------------- list and tree
\* position of a name in ORDER BY categories.name
NameRank == [n \in Names |-> IF n = "Laptops" THEN 1 ELSE 2]

\* one selected row of getCategories / getCategoryTree
listRow(cats, prods, c) ==
    [id |-> c, name |-> cats[c].name, description |-> cats[c].description,
     parentId |-> cats[c].parentId, productCount |-> productCount(prods, c)]

\* ORDER BY name: every sequence of the rows that ascends by name (the order
\* of rows with equal names is not fixed by the query)
RECURSIVE orderByName(_)
orderByName(rows) ==
    IF rows = {} THEN {<<>>}
    ELSE LET firsts == {x \in rows :
                          \A y \in rows : NameRank[x.name] <= NameRank[y.name]}
         IN UNION {{<<x>> \o rest : rest \in orderByName(rows \ {x})} : x \in firsts}

\* (variant) the list whose parent filter is tested for truthiness: null
\* filters nothing
getCategories_nullIsNoFilter(cats, prods, tenantId, parentId) ==
    orderByName({listRow(cats, prods, c) : c \in
        {c \in DOMAIN cats :
            /\ cats[c].tenantId = tenantId
            /\ (parentId # Undefined /\ Truthy(parentId))
                 => cats[c].parentId = parentId}})

\* Get all categories (flat list), without a search text; parentId is the
\* filter: Undefined for none, Null for root categories only
getCategories(cats, prods, tenantId, parentId) ==
    orderByName({listRow(cats, prods, c) : c \in
        {c \in DOMAIN cats :
            /\ cats[c].tenantId = tenantId
            /\ parentId # Undefined =>
                 IF parentId = Null THEN cats[c].parentId = Null
                                    ELSE cats[c].parentId = parentId}})

\* (variant) the tree that keeps the categories of one level only and does
\* not descend into their children
buildTree_leaves(list, parentId) ==
    LET level == SelectSeq(list, LAMBDA category : category.parentId = parentId)
    IN [i \in 1..Len(level) |->
           [id |-> level[i].id, name |-> level[i].name,
            description |-> level[i].description,
            parentId |-> level[i].parentId,
            productCount |-> level[i].productCount,
            children |-> <<>>]]

\* Build hierarchical tree from flat list
RECURSIVE buildTree(_, _)
buildTree(list, parentId) ==
    LET level == SelectSeq(list, LAMBDA category : category.parentId = parentId)
    IN [i \in 1..Len(level) |->
           [id |-> level[i].id, name |-> level[i].name,
            description |-> level[i].description,
            parentId |-> level[i].parentId,
            productCount |-> level[i].productCount,
            children |-> buildTree(list, level[i].id)]]

\* every sequence of the rows, in any order
RECURSIVE anyOrder(_)
anyOrder(rows) ==
    IF rows = {} THEN {<<>>}
    ELSE UNION {{<<x>> \o rest : rest \in anyOrder(rows \ {x})} : x \in rows}

\* (variant) the tree built from a select without its ORDER BY
getCategoryTree_unordered(cats, prods, tenantId) ==
    {buildTree(allCategories, Null) :
        allCategories \in anyOrder({listRow(cats, prods, c) :
            c \in {c \in DOMAIN cats : cats[c].tenantId = tenantId}})}

\* Get category tree (hierarchical structure): the forests the call can return
getCategoryTree(cats, prods, tenantId) ==
    {buildTree(allCategories, Null) :
        allCategories \in getCategories(cats, prods, tenantId, Undefined)}

\* ---------------------------------------------------------------- inputs
\* createCategorySchema: parentId is a positive integer or absent
CreateInputs(descriptions) ==
    [name : Names,
     description : descriptions \cup {UndefinedText},
     parentId : CategoryIds \cup {Undefined}]

\* updateCategorySchema: every key optional, parentId nullable
UpdateInputs(descriptions) ==
    [name : Names \cup {UndefinedText},
     description : descriptions \cup {UndefinedText},
     parentId : CategoryIds \cup {Null, Undefined}]

\* the body of PATCH /:id/move is not parsed by a schema
MoveInputs == CategoryIds \cup {Null, 0}

\* categoryQuerySchema: parentId absent, null or an integer
ListInputs == CategoryIds \cup {Null, Undefined}

\* ----------------------------------------------------------------- state
Init ==
    /\ categories = <<>>
    /\ nextCategoryId = 1
    /\ products = <<>>
    /\ nextProductId = 1
    /\ requests = <<>>
    /\ timestamps = <<>>
    /\ clock = 0

\* POST /categories
CreateCategory(maxId, descriptions) ==
    \E tenantId \in Tenants, data \in CreateInputs(descriptions) :
        /\ nextCategoryId <= maxId
        /\ LET r == createCategory(categories, data, tenantId, nextCategoryId)
           IN /\ categories' = r.categories
              /\ nextCategoryId' = IF r.outcome = Ok THEN nextCategoryId + 1
                                                     ELSE nextCategoryId
        /\ UNCHANGED <<products, nextProductId, requests, timestamps, clock>>

\* PUT /categories/:id
UpdateCategory(descriptions) ==
    \E tenantId \in Tenants, id \in CategoryIds, data \in UpdateInputs(descriptions) :
        /\ LET r == updateCategory(categories, products, id, data, tenantId)
           IN /\ r.outcome # Hangs
              /\ categories' = r.categories
        /\ UNCHANGED <<nextCategoryId, products, nextProductId, requests, timestamps, clock>>

\* PATCH /categories/:id/move
MoveCategory ==
    \E tenantId \in Tenants, id \in CategoryIds, newParentId \in MoveInputs :
        /\ LET r == moveCategory(categories, products, id, newParentId, tenantId)
           IN /\ r.outcome # Hangs
              /\ categories' = r.categories
        /\ UNCHANGED <<nextCategoryId, products, nextProductId, requests, timestamps, clock>>

\* DELETE /categories/:id
DeleteCategory ==
    \E tenantId \in Tenants, id \in CategoryIds :
        /\ categories' = deleteCategory(categories, products, id, tenantId).categories
        /\ UNCHANGED <<nextCategoryId, products, nextProductId, requests, timestamps, clock>>

\* GET /categories/:id
GetCategoryById ==
    \E tenantId \in Tenants, id \in CategoryIds :
        /\ getCategoryById(categories, products, id, tenantId).outcome
               \in {Ok, CategoryNotFound}
        /\ UNCHANGED vars

\* GET /categories/:id/path
GetCategoryPath ==
    \E tenantId \in Tenants, id \in CategoryIds :
        /\ getCategoryPath(categories, id, tenantId).returns
        /\ UNCHANGED vars

\* GET /categories
GetCategories ==
    \E tenantId \in Tenants, parentId \in ListInputs :
        /\ getCategories(categories, products, tenantId, parentId) # {}
        /\ UNCHANGED vars

\* GET /categories?includeTree=true
GetCategoryTree ==
    \E tenantId \in Tenants :
        /\ getCategoryTree(categories, products, tenantId) # {}
        /\ UNCHANGED vars

\* POST /products
CreateProduct ==
    \E tenantId \in Tenants, categoryId \in CategoryIds :
        /\ nextProductId <= MaxProducts
        /\ LET r == createProduct(categories, products, categoryId, tenantId,
                                  nextProductId)
           IN /\ products' = r.products
              /\ nextProductId' = IF r.outcome = Ok THEN nextProductId + 1
                                                    ELSE nextProductId
        /\ UNCHANGED <<categories, nextCategoryId, requests, timestamps, clock>>

\* PUT /products/:id
UpdateProduct ==
    \E tenantId \in Tenants, id \in ProductIds, categoryId \in CategoryIds :
        /\ products' = updateProduct(categories, products, id, categoryId,
                                     tenantId).products
        /\ UNCHANGED <<categories, nextCategoryId, nextProductId, requests, timestamps, clock>>

\* DELETE /products/:id
DeleteProduct ==
    \E tenantId \in Tenants, id \in ProductIds :
        /\ products' = deleteProduct(products, id, tenantId).products
        /\ UNCHANGED <<categories, nextCategoryId, nextProductId, requests, timestamps, clock>>

\* the category engine alone: no product is ever created, which only makes
\* deletions succeed more often
Next ==
    \/ CreateCategory(MaxId, {})
    \/ UpdateCategory({})
    \/ MoveCategory
    \/ DeleteCategory
    \/ GetCategoryById
    \/ GetCategoryPath
    \/ GetCategories
    \/ GetCategoryTree

Spec == Init /\ [][Next]_vars

\* the category engine together with the product service
StoreNext ==
    \/ CreateCategory(MaxIdWithProducts, {})
    \/ UpdateCategory({})
    \/ MoveCategory
    \/ DeleteCategory
    \/ CreateProduct
    \/ UpdateProduct
    \/ DeleteProduct

StoreSpec == Init /\ [][StoreNext]_vars

\* --------------------------------------------------- routes and role gate
\* the roles a user record carries; UndefinedText stands for a user without one
Roles == {"admin", "manager", "staff"}
UserRoles == Roles \cup {UndefinedText}

\* the reply of requireRole to a caller it turns away (403)
Forbidden == "Insufficient permissions"

\* requireRole(...roles): the authenticated caller passes when its role is
\* one of roles
requireRole(roles, userRole) == userRole # UndefinedText /\ userRole \in roles

\* (variant) the route table with the delete route open to managers too
routeRoles_managerDeletes ==
    [create |-> {"admin", "manager"}, update |-> {"admin", "manager"},
     move |-> {"admin", "manager"}, delete |-> {"admin", "manager"}]

\* the routes registered with a requireRole preHandler, and its arguments
routeRoles ==
    [create |-> {"admin", "manager"}, update |-> {"admin", "manager"},
     move |-> {"admin", "manager"}, delete |-> {"admin"}]

\* the routes registered without a preHandler of their own
ReadRoutes == {"list", "tree", "stats", "getById", "path"}

\* whether the preHandler chain of a route lets the handler run
preHandler(route, userRole) ==
    route \in DOMAIN routeRoles => requireRole(routeRoles[route], userRole)

\* Get category statistics (without the average)
getCategoryStats(cats, prods, tenantId) ==
    LET mine == {c \in DOMAIN cats : cats[c].tenantId = tenantId}
    IN [totalCategories |-> Cardinality(mine),
        rootCategories |-> Cardinality({c \in mine : cats[c].parentId = Null}),
        categoriesWithProducts |->
            Cardinality({c \in mine : productCount(prods, c) > 0})]

\* POST /categories as a caller with userRole
postCategory(cats, data, tenantId, userRole, newId) ==
    IF ~preHandler("create", userRole) THEN Result(Forbidden, 0, <<>>, cats)
    ELSE createCategory(cats, data, tenantId, newId)

\* PUT /categories/:id as a caller with userRole
putCategory(cats, prods, id, data, tenantId, userRole) ==
    IF ~preHandler("update", userRole) THEN Result(Forbidden, 0, <<>>, cats)
    ELSE updateCategory(cats, prods, id, data, tenantId)

\* PATCH /categories/:id/move as a caller with userRole
patchCategoryMove(cats, prods, id, parentId, tenantId, userRole) ==
    IF ~preHandler("move", userRole) THEN Result(Forbidden, 0, <<>>, cats)
    ELSE moveCategory(cats, prods, id, parentId, tenantId)

\* DELETE /categories/:id as a caller with userRole
deleteCategoryRoute(cats, prods, id, tenantId, userRole) ==
    IF ~preHandler("delete", userRole) THEN Result(Forbidden, 0, <<>>, cats)
    ELSE deleteCategory(cats, prods, id, tenantId)

\* the ids the gated routes are asked about
GateIds == 1..MaxGateId

PostCategory ==
    \E tenantId \in Tenants, userRole \in UserRoles,
       data \in CreateInputs(Descriptions) :
        /\ nextCategoryId <= MaxGateId
        /\ data.parentId \in GateIds \cup {Undefined}
        /\ LET r == postCategory(categories, data, tenantId, userRole, nextCategoryId)
           IN /\ categories' = r.categories
              /\ nextCategoryId' = IF r.outcome = Ok THEN nextCategoryId + 1
                                                     ELSE nextCategoryId
        /\ UNCHANGED <<products, nextProductId, requests, timestamps, clock>>

PutCategory ==
    \E tenantId \in Tenants, userRole \in UserRoles, id \in GateIds,
       data \in UpdateInputs({}) :
        /\ data.parentId \in GateIds \cup {Null, Undefined}
        /\ LET r == putCategory(categories, products, id, data, tenantId, userRole)
           IN /\ r.outcome # Hangs
              /\ categories' = r.categories
        /\ UNCHANGED <<nextCategoryId, products, nextProductId, requests, timestamps, clock>>

PatchCategoryMove ==
    \E tenantId \in Tenants, userRole \in UserRoles, id \in GateIds,
       parentId \in GateIds \cup {Null, 0} :
        /\ LET r == patchCategoryMove(categories, products, id, parentId, tenantId,
                                      userRole)
           IN /\ r.outcome # Hangs
              /\ categories' = r.categories
        /\ UNCHANGED <<nextCategoryId, products, nextProductId, requests, timestamps, clock>>

DeleteCategoryAsRole ==
    \E tenantId \in Tenants, userRole \in UserRoles, id \in GateIds :
        /\ categories' = deleteCategoryRoute(categories, products, id, tenantId,
                                             userRole).categories
        /\ UNCHANGED <<nextCategoryId, products, nextProductId, requests, timestamps, clock>>

\* GET /categories, /categories/stats, /categories/:id, /categories/:id/path
GetAsRole ==
    \E tenantId \in Tenants, userRole \in UserRoles, route \in ReadRoutes :
        /\ preHandler(route, userRole)
        /\ getCategoryStats(categories, products, tenantId).totalCategories >= 0
        /\ UNCHANGED vars

\* the category routes called by users of every role
GateNext ==
    \/ PostCategory
    \/ PutCategory
    \/ PatchCategoryMove
    \/ DeleteCategoryAsRole
    \/ GetAsRole

GateSpec == Init /\ [][GateNext]_vars

\* ----------------------------------------------------------- timestamps
\* created_at and updated_at of an inserted row: both columns default to now
insertedStamps(now) == [createdAt |-> now, updatedAt |-> now]

\* (variant) a set clause that assigns created_at as well
updatedStamps_recreated(stamps, now) == [createdAt |-> now, updatedAt |-> now]

\* the two columns after set({...data, updatedAt: new Date()})
updatedStamps(stamps, now) == [stamps EXCEPT !.updatedAt = now]

\* POST /categories at time clock
CreateCategoryAt ==
    \E tenantId \in Tenants, data \in CreateInputs(Descriptions) :
        /\ clock < MaxClock
        /\ nextCategoryId <= MaxId
        /\ LET r == createCategory(categories, data, tenantId, nextCategoryId)
           IN /\ r.outcome = Ok
              /\ categories' = r.categories
              /\ nextCategoryId' = nextCategoryId + 1
              /\ timestamps' = [c \in DOMAIN timestamps \cup {nextCategoryId} |->
                                   IF c = nextCategoryId THEN insertedStamps(clock)
                                                         ELSE timestamps[c]]
              /\ clock' = clock + 1
        /\ UNCHANGED <<products, nextProductId, requests>>

\* PUT /categories/:id at time clock
UpdateCategoryAt ==
    \E tenantId \in Tenants, id \in CategoryIds, data \in UpdateInputs(Descriptions) :
        /\ clock < MaxClock
        /\ LET r == updateCategory(categories, products, id, data, tenantId)
           IN /\ r.outcome = Ok
              /\ categories' = r.categories
              /\ timestamps' = [timestamps EXCEPT
                                   ![id] = updatedStamps(timestamps[id], clock)]
              /\ clock' = clock + 1
        /\ UNCHANGED <<nextCategoryId, products, nextProductId, requests>>

\* DELETE /categories/:id
DeleteCategoryAt ==
    \E tenantId \in Tenants, id \in CategoryIds :
        /\ LET r == deleteCategory(categories, products, id, tenantId)
           IN /\ r.outcome = Ok
              /\ categories' = r.categories
              /\ timestamps' = [c \in DOMAIN r.categories |-> timestamps[c]]
        /\ UNCHANGED <<nextCategoryId, products, nextProductId, requests, clock>>

\* the category engine with the created_at and updated_at columns: every
\* write statement reads a later time than the one before it
StampNext ==
    \/ CreateCategoryAt
    \/ UpdateCategoryAt
    \/ DeleteCategoryAt

StampSpec == Init /\ [][StampNext]_vars

\* ------------------------------------------- one awaited query at a time
\* the callers whose requests are served concurrently: one tenant's users
RaceTenants == {"tA"}
\* the ids of the rows that exist before the requests arrive
RaceIds == 1..MaxRaceId

\* the request has returned or thrown
Done == "done"
\* the locals of a request before its first query has answered
NothingRead ==
    [name |-> UndefinedText, parentId |-> Undefined, productCount |-> 0]
\* the input object of a request that carries none (delete)
NoPatch ==
    [name |-> UndefinedText, description |-> UndefinedText, parentId |-> Undefined]

\* an arriving request: pc names the awaited query it runs next, existing is
\* the row getCategoryById gave it, currentId the cursor of its ancestor walk
Request(op, tenantId, id, data, pc) ==
    [op |-> op, tenantId |-> tenantId, id |-> id, data |-> data, pc |-> pc,
     existing |-> NothingRead, currentId |-> Null, outcome |-> ""]

\* the request once it has returned (outcome "ok") or thrown (the message)
Finished(req, outcome) == [req EXCEPT !.pc = Done, !.outcome = outcome]

\* what one query of a request leaves: its locals and the table
Step(req, cats) == [request |-> req, categories |-> cats]

\* the first query of createCategory: the parent lookup when a parentId is
\* given, the sibling lookup otherwise
createCategoryEntry(data) ==
    IF Truthy(data.parentId) /\ data.parentId # Undefined
      THEN "parentCategory" ELSE "existingCategory"

\* createCategory, one awaited query per step: the parent lookup, the sibling
\* lookup, the insert (newId is the value the serial column assigns)
createCategoryStep(cats, req, newId) ==
    IF req.pc = "parentCategory"
      THEN IF findCategory(cats, req.data.parentId, req.tenantId) = {}
             THEN Step(Finished(req, ParentNotFound), cats)
             ELSE Step([req EXCEPT !.pc = "existingCategory"], cats)
    ELSE IF req.pc = "existingCategory"
      THEN IF existingCategory(cats, req.data, req.tenantId) # {}
             THEN Step(Finished(req, DuplicateName), cats)
             ELSE Step([req EXCEPT !.pc = "insert"], cats)
    ELSE Step([Finished(req, Ok) EXCEPT !.id = newId],
              [c \in DOMAIN cats \cup {newId} |->
                  IF c = newId THEN insertedRow(req.data, req.tenantId)
                               ELSE cats[c]])

\* where updateCategory goes once the parent is validated: to the sibling
\* lookup when the name changes against the row read at entry, else to the write
afterParentValidation(req) ==
    IF req.data.name # UndefinedText /\ req.data.name # req.existing.name
      THEN "duplicate" ELSE "update"

\* (variant) the write without the throw on an empty returning()
updateStatement_resultUnchecked(cats, req) ==
    Step(Finished(req, Ok), updateRows(cats, req.id, req.data, req.tenantId))

\* the last query of updateCategory: the UPDATE ... returning(), which throws
\* when no row matched
updateStatement(cats, req) ==
    IF findCategory(cats, req.id, req.tenantId) = {}
      THEN Step(Finished(req, FailedToUpdate), cats)
      ELSE Step(Finished(req, Ok),
                updateRows(cats, req.id, req.data, req.tenantId))

\* updateCategory, one awaited query per step: getCategoryById, the parent
\* lookup, each lookup of the ancestor walk, the sibling lookup, the write
updateCategoryStep(cats, prods, req) ==
    LET id == req.id
        data == req.data
        tenantId == req.tenantId
    IN IF req.pc = "getCategoryById"
         THEN IF findCategory(cats, id, tenantId) = {}
                THEN Step(Finished(req, CategoryNotFound), cats)
              ELSE LET read == [req EXCEPT !.existing =
                                   [name |-> cats[id].name,
                                    parentId |-> cats[id].parentId,
                                    productCount |-> productCount(prods, id)]]
                   IN IF data.parentId = Undefined \/ data.parentId = Null
                        THEN Step([read EXCEPT !.pc = afterParentValidation(read)], cats)
                      ELSE IF data.parentId = id
                        THEN Step(Finished(read, OwnParent), cats)
                      ELSE Step([read EXCEPT !.pc = "parentCategory"], cats)
       ELSE IF req.pc = "parentCategory"
         THEN IF findCategory(cats, data.parentId, tenantId) = {}
                THEN Step(Finished(req, ParentNotFound), cats)
                ELSE Step([req EXCEPT !.pc = "wouldCreateCircularReference",
                                      !.currentId = data.parentId], cats)
       ELSE IF req.pc = "wouldCreateCircularReference"
         THEN LET parent == findCategory(cats, req.currentId, tenantId)
                  next == IF parent # {} /\ Truthy(cats[req.currentId].parentId)
                            THEN cats[req.currentId].parentId ELSE Null
              IN IF next = Null
                   THEN Step([req EXCEPT !.pc = afterParentValidation(req),
                                         !.currentId = Null], cats)
                 ELSE IF next = id
                   THEN Step(Finished(req, Circular), cats)
                 ELSE Step([req EXCEPT !.currentId = next], cats)
       ELSE IF req.pc = "duplicate"
         THEN IF duplicateAt(cats, id, data.name,
                             IF data.parentId # Undefined
                               THEN data.parentId ELSE req.existing.parentId,
                             tenantId) # {}
                THEN Step(Finished(req, DuplicateName), cats)
                ELSE Step([req EXCEPT !.pc = "update"], cats)
       ELSE updateStatement(cats, req)

\* deleteCategory, one awaited query per step: the row and its product count,
\* the children, the delete statement
deleteCategoryStep(cats, prods, req) ==
    LET id == req.id
        tenantId == req.tenantId
    IN IF req.pc = "getCategoryById"
         THEN IF findCategory(cats, id, tenantId) = {}
                THEN Step(Finished(req, CategoryNotFound), cats)
                ELSE Step([req EXCEPT !.pc = "children",
                                      !.existing =
                                          [name |-> cats[id].name,
                                           parentId |-> cats[id].parentId,
                                           productCount |-> productCount(prods, id)]],
                          cats)
       ELSE IF req.pc = "children"
         THEN IF req.existing.productCount > 0
                THEN Step(Finished(req, HasProducts), cats)
              ELSE IF Cardinality(childrenOf(cats, id)) > 0
                THEN Step(Finished(req, HasSubcategories), cats)
              ELSE Step([req EXCEPT !.pc = "delete"], cats)
       ELSE IF referencingProducts(prods, id) # {}
         THEN Step(Finished(req, ForeignKeyViolation), cats)
       ELSE Step(Finished(req, Ok), deleteRows(cats, id, tenantId))

\* the bodies the concurrent requests carry
RaceCreateInputs ==
    {data \in CreateInputs({}) : data.parentId \in RaceIds \cup {Undefined}}
RaceUpdateInputs ==
    {data \in UpdateInputs({}) : data.parentId \in RaceIds \cup {Null, Undefined}}

\* the tables a tenant can have built, by at most n successful creations,
\* before the concurrent requests arrive
RECURSIVE CreatedStores(_)
CreatedStores(n) ==
    IF n = 0 THEN {<<>>}
    ELSE LET before == CreatedStores(n - 1)
         IN before \cup
            {createCategory(cats, data, tenantId,
                            Cardinality(DOMAIN cats) + 1).categories :
                cats \in before, data \in RaceCreateInputs, tenantId \in RaceTenants}

RaceInit ==
    /\ categories \in CreatedStores(MaxRaceId)
    /\ nextCategoryId = Cardinality(DOMAIN categories) + 1
    /\ products = <<>>
    /\ nextProductId = 1
    /\ requests = <<>>
    /\ timestamps = <<>>
    /\ clock = 0

\* POST /categories arrives and runs its first query
BeginCreateCategory ==
    \E tenantId \in RaceTenants, data \in RaceCreateInputs :
        /\ Len(requests) < MaxRequests
        /\ LET s == createCategoryStep(
                        categories,
                        Request("create", tenantId, 0, data, createCategoryEntry(data)),
                        nextCategoryId)
           IN /\ requests' = Append(requests, s.request)
              /\ categories' = s.categories
        /\ UNCHANGED <<nextCategoryId, products, nextProductId, timestamps, clock>>

\* a POST /categories in flight runs its next query
ContinueCreateCategory ==
    \E i \in DOMAIN requests :
        /\ requests[i].op = "create"
        /\ requests[i].pc # Done
        /\ LET s == createCategoryStep(categories, requests[i], nextCategoryId)
           IN /\ requests' = [requests EXCEPT ![i] = s.request]
              /\ categories' = s.categories
              /\ nextCategoryId' = IF requests[i].pc = "insert"
                                     THEN nextCategoryId + 1 ELSE nextCategoryId
        /\ UNCHANGED <<products, nextProductId, timestamps, clock>>

\* PUT /categories/:id or PATCH /categories/:id/move arrives and runs its
\* first query
BeginUpdateCategory ==
    \E tenantId \in RaceTenants, id \in RaceIds, data \in RaceUpdateInputs :
        /\ Len(requests) < MaxRequests
        /\ LET s == updateCategoryStep(
                        categories, products,
                        Request("update", tenantId, id, data, "getCategoryById"))
           IN /\ requests' = Append(requests, s.request)
              /\ categories' = s.categories
        /\ UNCHANGED <<nextCategoryId, products, nextProductId, timestamps, clock>>

\* an update or move in flight runs its next query
ContinueUpdateCategory ==
    \E i \in DOMAIN requests :
        /\ requests[i].op = "update"
        /\ requests[i].pc # Done
        /\ LET s == updateCategoryStep(categories, products, requests[i])
           IN /\ requests' = [requests EXCEPT ![i] = s.request]
              /\ categories' = s.categories
        /\ UNCHANGED <<nextCategoryId, products, nextProductId, timestamps, clock>>

\* DELETE /categories/:id arrives and runs its first query
BeginDeleteCategory ==
    \E tenantId \in RaceTenants, id \in RaceIds :
        /\ Len(requests) < MaxRequests
        /\ LET s == deleteCategoryStep(
                        categories, products,
                        Request("delete", tenantId, id, NoPatch, "getCategoryById"))
           IN /\ requests' = Append(requests, s.request)
              /\ categories' = s.categories
        /\ UNCHANGED <<nextCategoryId, products, nextProductId, timestamps, clock>>

\* a delete in flight runs its next query
ContinueDeleteCategory ==
    \E i \in DOMAIN requests :
        /\ requests[i].op = "delete"
        /\ requests[i].pc # Done
        /\ LET s == deleteCategoryStep(categories, products, requests[i])
           IN /\ requests' = [requests EXCEPT ![i] = s.request]
              /\ categories' = s.categories
        /\ UNCHANGED <<nextCategoryId, products, nextProductId, timestamps, clock>>

\* the category engine serving concurrent requests: the service opens no
\* transaction, so between two queries of one request any query of another
\* request may run
RaceNext ==
    \/ BeginCreateCategory
    \/ ContinueCreateCategory
    \/ BeginUpdateCategory
    \/ ContinueUpdateCategory
    \/ BeginDeleteCategory
    \/ ContinueDeleteCategory

RaceSpec == RaceInit /\ [][RaceNext]_vars

\* a request of this operation has arrived
Arrived(op) == \E j \in DOMAIN requests : requests[j].op = op

\* one update or move and one delete served concurrently, any rows, any
\* interleaving of their queries
UpdateDeleteNext ==
    \/ ~Arrived("update") /\ BeginUpdateCategory
    \/ ContinueUpdateCategory
    \/ ~Arrived("delete") /\ BeginDeleteCategory
    \/ ContinueDeleteCategory

UpdateDeleteSpec == RaceInit /\ [][UpdateDeleteNext]_vars

\* ------------------------------------------------- vocabulary of the claims
\* the category exists and belongs to the tenant
InTenant(id, tenantId) ==
    id \in DOMAIN categories /\ categories[id].tenantId = tenantId

\* the ids met by following parentId links upward from id, in at most n steps
RECURSIVE AncestorsWithin(_, _)
AncestorsWithin(id, n) ==
    IF n = 0 \/ id \notin DOMAIN categories \/ categories[id].parentId = Null
      THEN {}
      ELSE {categories[id].parentId}
             \cup AncestorsWithin(categories[id].parentId, n - 1)

\* every proper ancestor of id
Ancestors(id) == AncestorsWithin(id, Cardinality(DOMAIN categories))

\* every proper descendant of id
Descendants(id) == {d \in DOMAIN categories : id \in Ancestors(d)}

\* the categories of the tenant in the group of parentId (Null: the root group)
SiblingGroup(tenantId, parentId) ==
    {c \in DOMAIN categories :
        categories[c].tenantId = tenantId /\ categories[c].parentId = parentId}

\* the non-deleted products of the category's tenant that reference it
ProductsIn(id) ==
    {p \in DOMAIN products :
        /\ products[p].categoryId = id
        /\ products[p].tenantId = categories[id].tenantId
        /\ ~products[p].deleted}

\* the ids of the nodes of a forest
RECURSIVE NodeIds(_)
NodeIds(forest) ==
    UNION {{forest[i].id} \cup NodeIds(forest[i].children) : i \in 1..Len(forest)}

\* the nodes of a forest, at every level
RECURSIVE AllNodes(_)
AllNodes(forest) ==
    UNION {{forest[i]} \cup AllNodes(forest[i].children) : i \in 1..Len(forest)}

\* the ids of the nodes of a forest, one entry per node, parents first
RECURSIVE FlattenIds(_)
FlattenIds(forest) ==
    IF forest = <<>> THEN <<>>
    ELSE <<forest[1].id>> \o FlattenIds(forest[1].children)
                          \o FlattenIds(Tail(forest))

\* the ids of a sequence of rows or nodes, in its order
IdsOf(rows) == [i \in 1..Len(rows) |-> rows[i].id]

\* an id the serial column has handed out whose row is gone: a delete has run
SomeRowDeleted == \E d \in 1..(nextCategoryId - 1) : d \notin DOMAIN categories

\* ------------------------------------------------------------------ C1
\* C1: in every reachable state, no two distinct categories of one tenant
\* with the same parentId (null: the root group) have the same name.
C1_SiblingNamesUnique ==
    \A a, b \in DOMAIN categories :
        (/\ a # b
         /\ categories[a].tenantId = categories[b].tenantId
         /\ categories[a].parentId = categories[b].parentId)
        => categories[a].name # categories[b].name

\* ------------------------------------------------------------------ C2
\* C2: move(id, newParentId, tenantId) fails with Conflict and leaves the
\* store unchanged whenever another category of the tenant in the group of
\* newParentId already has the moved category's name.
C2_MoveRejectsDuplicateSibling ==
    \A tenantId \in Tenants, id \in CategoryIds, newParentId \in MoveInputs :
        (/\ InTenant(id, tenantId)
         /\ \E other \in SiblingGroup(tenantId, newParentId) :
                other # id /\ categories[other].name = categories[id].name)
        => LET r == moveCategory(categories, products, id, newParentId, tenantId)
           IN Kind(r.outcome) = "Conflict" /\ r.categories = categories

\* ------------------------------------------------------------------ C3
\* C3: in every reachable state, following parentId links from a category
\* never comes back to that category.
C3_Acyclic == \A c \in DOMAIN categories : c \notin Ancestors(c)

\* a category was reparented under a category created after it, and the
\* cycle guard refuses the move that would close the loop
C3_Witness ==
    \E a, b \in DOMAIN categories :
        /\ a < b
        /\ categories[a].parentId = b
        /\ moveCategory(categories, products, b, a, categories[b].tenantId).outcome
               = Circular

\* ------------------------------------------------------------------ C4
\* C4: for every category A and every proper descendant D of A, at any
\* depth, update(A, {parentId: D}) and move(A, D) fail with Conflict and
\* leave every parentId unchanged.
C4_DescendantAsParentRejected ==
    \A a \in DOMAIN categories :
        \A d \in Descendants(a) :
            LET tenantId == categories[a].tenantId
                m == moveCategory(categories, products, a, d, tenantId)
            IN /\ Kind(m.outcome) = "Conflict"
               /\ m.categories = categories
               /\ \A data \in UpdateInputs({}) :
                      data.parentId = d =>
                        LET u == updateCategory(categories, products, a, data, tenantId)
                        IN Kind(u.outcome) = "Conflict" /\ u.categories = categories

\* a category has a grandchild, and moving it under that grandchild is refused
C4_Witness ==
    \E a, d \in DOMAIN categories :
        /\ d \in Descendants(a)
        /\ categories[d].parentId # a
        /\ moveCategory(categories, products, a, d, categories[a].tenantId).outcome
               = Circular

\* ------------------------------------------------------------------ C5
\* C5: for every category of the calling tenant, update(id, {parentId: id})
\* with any other fields in the patch, and move(id, id), fail with Conflict
\* and leave the store unchanged.
C5_OwnParentRejected ==
    \A id \in DOMAIN categories :
        LET tenantId == categories[id].tenantId
            m == moveCategory(categories, products, id, id, tenantId)
        IN /\ Kind(m.outcome) = "Conflict"
           /\ m.categories = categories
           /\ \A data \in UpdateInputs({}) :
                  data.parentId = id =>
                    LET u == updateCategory(categories, products, id, data, tenantId)
                    IN Kind(u.outcome) = "Conflict" /\ u.categories = categories

\* a patch that names the category as its own parent and also renames it to a
\* name free in every group is refused
C5_Witness ==
    \E id \in DOMAIN categories, name \in Names :
        /\ \A c \in DOMAIN categories : categories[c].name # name
        /\ updateCategory(categories, products, id,
                          [name |-> name, description |-> UndefinedText,
                           parentId |-> id],
                          categories[id].tenantId).outcome = OwnParent

\* ------------------------------------------------------------------ C6
\* C6: in every reachable state, every category with a non-null parentId
\* has a parent row that exists and has the same tenantId.
C6_ParentExistsInTenant ==
    \A c \in DOMAIN categories :
        categories[c].parentId # Null
        => InTenant(categories[c].parentId, categories[c].tenantId)

\* after a delete has run, a category under a parent remains and the
\* deletion of that parent is refused
C6_Witness ==
    /\ SomeRowDeleted
    /\ \E c \in DOMAIN categories :
           /\ categories[c].parentId # Null
           /\ deleteCategory(categories, products, categories[c].parentId,
                             categories[c].tenantId).outcome = HasSubcategories

\* ------------------------------------------------------------------ C7
\* C7: delete(id, tenantId) removes a row only when the category has no
\* non-deleted product and no child; otherwise it fails with Conflict, the
\* message carries the number of products (checked first) or of children,
\* and the store is unchanged.
C7_DeleteGated ==
    \A id \in DOMAIN categories :
        LET tenantId == categories[id].tenantId
            nProducts == Cardinality(ProductsIn(id))
            nChildren == Cardinality(SiblingGroup(tenantId, id))
            r == deleteCategory(categories, products, id, tenantId)
        IN /\ nProducts > 0 =>
                /\ r.outcome = HasProducts
                /\ r.count = nProducts
                /\ r.categories = categories
           /\ (nProducts = 0 /\ nChildren > 0) =>
                /\ r.outcome = HasSubcategories
                /\ r.count = nChildren
                /\ r.categories = categories
           /\ r.categories # categories => (nProducts = 0 /\ nChildren = 0)

\* a category with a live product and a child: the deletion is refused for
\* its product
C7_Witness ==
    \E id \in DOMAIN categories :
        /\ ProductsIn(id) # {}
        /\ SiblingGroup(categories[id].tenantId, id) # {}
        /\ deleteCategory(categories, products, id,
                          categories[id].tenantId).outcome = HasProducts

\* ------------------------------------------------------------------ C8
\* C8: in every reachable state, delete(id, tenantId) on a category with
\* productCount = 0 and no children succeeds, removes exactly that row and
\* returns its id and name.
C8_DeleteSucceedsWhenEmpty ==
    \A id \in DOMAIN categories :
        LET tenantId == categories[id].tenantId
            r == deleteCategory(categories, products, id, tenantId)
        IN (ProductsIn(id) = {} /\ SiblingGroup(tenantId, id) = {})
           => /\ r.outcome = Ok
              /\ r.value = <<[id |-> id, name |-> categories[id].name]>>
              /\ DOMAIN r.categories = DOMAIN categories \ {id}
              /\ \A c \in DOMAIN r.categories : r.categories[c] = categories[c]

\* ------------------------------------------------------------------ C9
\* C9: for a category of tenant A and any other tenant B, getById, update,
\* move and delete called with B fail with NotFound and change no row, path
\* called with B returns the empty sequence, and list and tree of B never
\* contain the category.
C9_TenantIsolation ==
    \A id \in DOMAIN categories :
        \A tenantB \in Tenants \ {categories[id].tenantId} :
            /\ Kind(getCategoryById(categories, products, id, tenantB).outcome)
                   = "NotFound"
            /\ \A data \in UpdateInputs({}) :
                   LET u == updateCategory(categories, products, id, data, tenantB)
                   IN Kind(u.outcome) = "NotFound" /\ u.categories = categories
            /\ \A newParentId \in MoveInputs :
                   LET m == moveCategory(categories, products, id, newParentId,
                                         tenantB)
                   IN Kind(m.outcome) = "NotFound" /\ m.categories = categories
            /\ LET d == deleteCategory(categories, products, id, tenantB)
               IN Kind(d.outcome) = "NotFound" /\ d.categories = categories
            /\ getCategoryPath(categories, id, tenantB)
                   = [returns |-> TRUE, value |-> <<>>]
            /\ \A parentId \in ListInputs :
                   \A list \in getCategories(categories, products, tenantB, parentId) :
                       \A i \in 1..Len(list) : list[i].id # id
            /\ \A forest \in getCategoryTree(categories, products, tenantB) :
                   id \notin NodeIds(forest)

\* two tenants own categories with the same name, one of them under a
\* parent, and the other tenant's lookup of it finds nothing
C9_Witness ==
    \E a, b \in DOMAIN categories :
        /\ categories[a].tenantId # categories[b].tenantId
        /\ categories[a].name = categories[b].name
        /\ categories[a].parentId # Null
        /\ getCategoryById(categories, products, a,
                           categories[b].tenantId).outcome = CategoryNotFound
        /\ getCategoryTree(categories, products, categories[b].tenantId) # {<<>>}

\* ----------------------------------------------------------------- C10
\* C10: create with a parentId, and update or move with a non-null
\* parentId, fail with NotFound and write nothing when no category with
\* that id exists in the calling tenant.
C10_UnknownParentRejected ==
    \A tenantId \in Tenants :
        /\ \A data \in CreateInputs({}) :
               (data.parentId # Undefined /\ ~InTenant(data.parentId, tenantId))
               => LET r == createCategory(categories, data, tenantId, nextCategoryId)
                  IN Kind(r.outcome) = "NotFound" /\ r.categories = categories
        /\ \A id \in CategoryIds, data \in UpdateInputs({}) :
               (/\ data.parentId \notin {Undefined, Null}
                /\ ~InTenant(data.parentId, tenantId))
               => LET u == updateCategory(categories, products, id, data, tenantId)
                  IN Kind(u.outcome) = "NotFound" /\ u.categories = categories
        /\ \A id \in CategoryIds, newParentId \in MoveInputs :
               (newParentId # Null /\ ~InTenant(newParentId, tenantId))
               => LET m == moveCategory(categories, products, id, newParentId,
                                        tenantId)
                  IN Kind(m.outcome) = "NotFound" /\ m.categories = categories

\* a tenant that owns a category names another tenant's category, and the
\* id of a deleted row, as parent: create and move are both refused
C10_Witness ==
    \E mine, foreign \in DOMAIN categories, gone \in CategoryIds :
        LET tenantId == categories[mine].tenantId
        IN /\ categories[foreign].tenantId # tenantId
           /\ gone < nextCategoryId /\ gone \notin DOMAIN categories
           /\ createCategory(categories,
                             [name |-> "Phones", description |-> UndefinedText,
                              parentId |-> foreign],
                             tenantId, nextCategoryId).outcome = ParentNotFound
           /\ moveCategory(categories, products, mine, gone, tenantId).outcome
                  = ParentNotFound

\* ----------------------------------------------------------------- C11
\* C11: create(name, parent, tenant) fails with Conflict exactly when a
\* category of the same tenant with the same name is in the same parent
\* group (the root group for an absent parent); it then writes nothing, and
\* otherwise, with a parent that is absent or in the tenant, it inserts the
\* row.  The same name under another parent or in another tenant never
\* blocks.
C11_CreateConflictExactly ==
    \A tenantId \in Tenants, data \in CreateInputs({}) :
        LET group == IF data.parentId = Undefined THEN Null ELSE data.parentId
            taken == \E c \in SiblingGroup(tenantId, group) :
                         categories[c].name = data.name
            r == createCategory(categories, data, tenantId, nextCategoryId)
        IN /\ Kind(r.outcome) = "Conflict" <=> taken
           /\ taken => r.categories = categories
           /\ (~taken /\ (group = Null \/ InTenant(group, tenantId)))
                => /\ r.outcome = Ok
                   /\ DOMAIN r.categories = DOMAIN categories \cup {nextCategoryId}
                   /\ r.categories[nextCategoryId].name = data.name
                   /\ r.categories[nextCategoryId].parentId = group
                   /\ r.categories[nextCategoryId].tenantId = tenantId

\* one name is carried by a root of a tenant, by a child of that root and by
\* a root of the other tenant: creating it once more is refused at the root
\* and under the root, and accepted under the child
C11_Witness ==
    \E a, b, c \in DOMAIN categories :
        LET tenantId == categories[a].tenantId
            named(parentId) == [name |-> categories[a].name,
                                description |-> UndefinedText,
                                parentId |-> parentId]
        IN /\ categories[a].parentId = Null
           /\ categories[b].parentId = a
           /\ categories[b].name = categories[a].name
           /\ categories[c].tenantId # tenantId
           /\ categories[c].parentId = Null
           /\ categories[c].name = categories[a].name
           /\ createCategory(categories, named(Undefined), tenantId,
                             nextCategoryId).outcome = DuplicateName
           /\ createCategory(categories, named(a), tenantId,
                             nextCategoryId).outcome = DuplicateName
           /\ createCategory(categories, named(b), tenantId,
                             nextCategoryId).outcome = Ok

\* ----------------------------------------------------------------- C12
\* C12: when the queries of two concurrent creates with the same tenant,
\* parent and name interleave, at most one of them succeeds: the rows two
\* such creates inserted are never same-named siblings.
C12_ConcurrentCreatesKeepNamesUnique ==
    \A i, j \in DOMAIN requests :
        (/\ i < j
         /\ requests[i].op = "create" /\ requests[j].op = "create"
         /\ requests[i].outcome = Ok /\ requests[j].outcome = Ok
         /\ requests[i].tenantId = requests[j].tenantId
         /\ requests[i].data.parentId = requests[j].data.parentId
         /\ requests[i].data.name = requests[j].data.name)
        => LET a == requests[i].id
               b == requests[j].id
           IN ~(/\ a \in DOMAIN categories /\ b \in DOMAIN categories
                /\ categories[a].tenantId = categories[b].tenantId
                /\ categories[a].parentId = categories[b].parentId
                /\ categories[a].name = categories[b].name)

\* ----------------------------------------------------------------- C13
\* C13: when the queries of move(A, B) and move(B, A) interleave, the two
\* moves do not both succeed: A and B never end as each other's parent.
C13_ConcurrentMovesKeepTreeAcyclic ==
    \A i, j \in DOMAIN requests :
        (/\ i < j
         /\ requests[i].op = "update" /\ requests[j].op = "update"
         /\ requests[i].outcome = Ok /\ requests[j].outcome = Ok
         /\ requests[i].data.parentId = requests[j].id
         /\ requests[j].data.parentId = requests[i].id)
        => LET a == requests[i].id
               b == requests[j].id
           IN ~(/\ a \in DOMAIN categories /\ b \in DOMAIN categories
                /\ categories[a].parentId = b
                /\ categories[b].parentId = a)

\* ----------------------------------------------------------------- C14
\* C14: in every state reached by interleaved requests, a call of path,
\* update or move on any category returns: its ancestor walk reaches null
\* or a missing row.
C14_EveryWalkReturns ==
    \A tenantId \in RaceTenants, id \in DOMAIN categories :
        /\ getCategoryPath(categories, id, tenantId).returns
        /\ \A data \in RaceUpdateInputs :
               updateCategory(categories, products, id, data, tenantId).outcome
                   # Hangs
        /\ \A newParentId \in RaceIds \cup {Null} :
               moveCategory(categories, products, id, newParentId, tenantId).outcome
                   # Hangs

\* ----------------------------------------------------------------- C15
\* C15: for every category c, path(c) called by its tenant returns the
\* {id, name} of its ancestors from the root down to c: the first element
\* has parentId null, each element is the parent of the next, the last is
\* c, and the length is the depth of c plus one.
C15_PathIsRootToNode ==
    \A c \in DOMAIN categories :
        LET p == getCategoryPath(categories, c, categories[c].tenantId)
            path == p.value
        IN /\ p.returns
           /\ Len(path) = Cardinality(Ancestors(c)) + 1
           /\ path[Len(path)].id = c
           /\ \A i \in 1..Len(path) :
                  /\ path[i].id \in DOMAIN categories
                  /\ path[i] = [id |-> path[i].id,
                                name |-> categories[path[i].id].name]
           /\ categories[path[1].id].parentId = Null
           /\ \A i \in 1..(Len(path) - 1) :
                  categories[path[i + 1].id].parentId = path[i].id

\* a category two levels below a root created after it: its breadcrumb has
\* three elements and starts at that root
C15_Witness ==
    \E c \in DOMAIN categories :
        LET path == getCategoryPath(categories, c, categories[c].tenantId).value
        IN /\ Len(path) = 3
           /\ path[1].id > c
           /\ path[3].id = c

\* ----------------------------------------------------------------- C16
\* C16: path(id, tenant) returns normally for every id and tenant, with the
\* empty sequence when no category with that id exists in the tenant (the
\* id is unknown or belongs to another tenant), and with a non-empty
\* sequence exactly when the id resolves in the tenant.
C16_PathEmptyExactlyWhenUnresolved ==
    \A tenantId \in Tenants, id \in CategoryIds :
        LET p == getCategoryPath(categories, id, tenantId)
        IN /\ p.returns
           /\ p.value = <<>> <=> ~InTenant(id, tenantId)
           /\ InTenant(id, tenantId) => p.value[Len(p.value)].id = id

\* a tenant asks for the path of a deleted row, of another tenant's
\* category and of a category of its own
C16_Witness ==
    \E mine, foreign \in DOMAIN categories, gone \in CategoryIds :
        LET tenantId == categories[mine].tenantId
        IN /\ categories[foreign].tenantId # tenantId
           /\ gone < nextCategoryId /\ gone \notin DOMAIN categories
           /\ getCategoryPath(categories, gone, tenantId).value = <<>>
           /\ getCategoryPath(categories, foreign, tenantId).value = <<>>
           /\ getCategoryPath(categories, mine, tenantId).value
                  = <<[id |-> mine, name |-> categories[mine].name]>>

\* ----------------------------------------------------------------- C17
\* C17: in tree(tenant) the roots are exactly the tenant's categories with
\* parentId null, the children of every node are, by id and in name
\* order, a result of list(tenant, parentId = the node's id), and every node
\* carries a children sequence, empty when it has no child.
C17_TreeAgreesWithList ==
    \A tenantId \in Tenants :
        \A forest \in getCategoryTree(categories, products, tenantId) :
            /\ {forest[i].id : i \in 1..Len(forest)} = SiblingGroup(tenantId, Null)
            /\ IdsOf(forest) \in
                   {IdsOf(list) : list \in
                       getCategories(categories, products, tenantId, Null)}
            /\ \A node \in AllNodes(forest) :
                   /\ IdsOf(node.children) \in
                          {IdsOf(list) : list \in
                              getCategories(categories, products, tenantId, node.id)}
                   /\ \A i \in 1..(Len(node.children) - 1) :
                          NameRank[node.children[i].name]
                              <= NameRank[node.children[i + 1].name]
                   /\ node.children = <<>> <=> SiblingGroup(tenantId, node.id) = {}

\* a node whose two children were created in the opposite of their name
\* order: the tree lists them by name, and they carry empty children
C17_Witness ==
    \E tenantId \in Tenants :
        \E forest \in getCategoryTree(categories, products, tenantId) :
            \E node \in AllNodes(forest) :
                /\ Len(node.children) = 2
                /\ node.children[1].id > node.children[2].id
                /\ node.children[1].name # node.children[2].name
                /\ node.children[1].children = <<>>

\* ----------------------------------------------------------------- C18
\* C18: in every state reached by create, update, move and delete, every
\* category of a tenant appears exactly once in tree(tenant), and no
\* category of another tenant appears in it.
C18_TreeHoldsEachCategoryOnce ==
    \A tenantId \in Tenants :
        \A forest \in getCategoryTree(categories, products, tenantId) :
            LET ids == FlattenIds(forest)
            IN \A c \in DOMAIN categories \cup {ids[i] : i \in 1..Len(ids)} :
                   Cardinality({i \in 1..Len(ids) : ids[i] = c})
                       = IF InTenant(c, tenantId) THEN 1 ELSE 0

\* after a delete, a tenant holds a category moved under one created after
\* it: its tree is that parent with the moved category as only child
C18_Witness ==
    /\ SomeRowDeleted
    /\ \E a, b \in DOMAIN categories :
           /\ a < b
           /\ categories[a].parentId = b
           /\ \A forest \in getCategoryTree(categories, products,
                                             categories[a].tenantId) :
                  FlattenIds(forest) = <<b, a>>

\* ----------------------------------------------------------------- C19
\* C19: a create, update, move or delete that ends with NotFound or
\* Conflict leaves the category table as it was: the same rows, each with
\* the same tenantId, name, description and parentId.
C19_FailedCallWritesNothing ==
    \A tenantId \in Tenants :
        LET failed(r) == Kind(r.outcome) \in {"NotFound", "Conflict"}
        IN /\ \A data \in CreateInputs(Descriptions) :
                  LET r == createCategory(categories, data, tenantId, nextCategoryId)
                  IN failed(r) => r.categories = categories
           /\ \A id \in CategoryIds, data \in UpdateInputs(Descriptions) :
                  LET r == updateCategory(categories, products, id, data, tenantId)
                  IN failed(r) => r.categories = categories
           /\ \A id \in CategoryIds, newParentId \in MoveInputs :
                  LET r == moveCategory(categories, products, id, newParentId, tenantId)
                  IN failed(r) => r.categories = categories
           /\ \A id \in CategoryIds :
                  LET r == deleteCategory(categories, products, id, tenantId)
                  IN failed(r) => r.categories = categories

\* a category that holds a product, beside a sibling with another name: its
\* deletion, its renaming to the sibling's name with a new description, its
\* move under itself and a creation under an unknown parent all fail
C19_Witness ==
    \E id, other \in DOMAIN categories :
        LET tenantId == categories[id].tenantId
        IN /\ categories[other].tenantId = tenantId
           /\ categories[other].parentId = categories[id].parentId
           /\ categories[other].name # categories[id].name
           /\ deleteCategory(categories, products, id, tenantId).outcome = HasProducts
           /\ updateCategory(categories, products, id,
                             [name |-> categories[other].name, description |-> "d",
                              parentId |-> Undefined],
                             tenantId).outcome = DuplicateName
           /\ moveCategory(categories, products, id, id, tenantId).outcome = OwnParent
           /\ createCategory(categories,
                             [name |-> "Phones", description |-> UndefinedText,
                              parentId |-> nextCategoryId],
                             tenantId, nextCategoryId).outcome = ParentNotFound

C22_MoveToRoot ==
    \A id \in DOMAIN categories :
        \A data \in UpdateInputs({}) :
            LET tenantId == categories[id].tenantId
                r == updateCategory(categories, products, id, data, tenantId)
                m == moveCategory(categories, products, id, Null, tenantId)
                atRoot(after) ==
                    /\ after[id].parentId = Null
                    /\ \A list \in getCategories(after, products, tenantId, Null) :
                           \E i \in 1..Len(list) : list[i].id = id
                    /\ \A forest \in getCategoryTree(after, products, tenantId) :
                           \E i \in 1..Len(forest) : forest[i].id = id
                    /\ getCategoryPath(after, id, tenantId)
                           = [returns |-> TRUE,
                              value |-> <<[id |-> id, name |-> after[id].name]>>]
                    /\ \A d \in Descendants(id) :
                           d \in DOMAIN after /\ after[d].parentId = categories[d].parentId
            IN /\ (data.parentId = Null /\ r.outcome = Ok) => atRoot(r.categories)
               /\ m.outcome = Ok => atRoot(m.categories)

\* a category with a parent and a child of its own is moved to the root
C22_Witness ==
    \E id, parent, child \in DOMAIN categories :
        /\ categories[id].parentId = parent
        /\ categories[child].parentId = id
        /\ LET m == moveCategory(categories, products, id, Null,
                                 categories[id].tenantId)
           IN /\ m.outcome = Ok
              /\ m.categories[id].parentId = Null
              /\ m.categories[child].parentId = id

\* ----------------------------------------------------------------- C23
\* C23: from any state and for any id, parent and tenant, move(id,
\* newParentId) and update(id, {parentId: newParentId}) end with the same
\* outcome and the same table; a move that succeeds changes nothing but
\* the parentId of the moved category.
C23_MoveIsUpdateOfParent ==
    \A tenantId \in Tenants, id \in CategoryIds, newParentId \in MoveInputs :
        LET m == moveCategory(categories, products, id, newParentId, tenantId)
            u == updateCategory(categories, products, id,
                                [name |-> UndefinedText, description |-> UndefinedText,
                                 parentId |-> newParentId],
                                tenantId)
        IN /\ m.outcome = u.outcome
           /\ m.categories = u.categories
           /\ m.value = u.value
           /\ m.outcome = Ok =>
                  /\ DOMAIN m.categories = DOMAIN categories
                  /\ m.categories[id]
                         = [categories[id] EXCEPT !.parentId = newParentId]
                  /\ \A c \in DOMAIN categories \ {id} :
                         m.categories[c] = categories[c]
           /\ m.outcome # Ok => m.categories = categories

\* a category and its child: the child can be moved to the root, the parent
\* cannot be moved under the child
C23_Witness ==
    \E a, b \in DOMAIN categories :
        LET tenantId == categories[a].tenantId
        IN /\ categories[b].parentId = a
           /\ moveCategory(categories, products, b, Null, tenantId).outcome = Ok
           /\ moveCategory(categories, products, b, Null, tenantId).categories
                  # categories
           /\ moveCategory(categories, products, a, b, tenantId).outcome = Circular

\* ----------------------------------------------------------------- C24
\* C24: a create, update or move request reaches the service exactly when
\* the caller's role is admin or manager, and a delete request exactly
\* when it is admin; a request of any other role is turned away with the
\* table unchanged; the read routes are served to every role.
C24_RoleGate ==
    \A tenantId \in Tenants, userRole \in UserRoles :
        LET elevated == userRole \in {"admin", "manager"}
            gated(r, served) ==
                /\ served => r.outcome # Forbidden
                /\ ~served => r.outcome = Forbidden /\ r.categories = categories
        IN /\ \A data \in CreateInputs(Descriptions) :
                  LET r == postCategory(categories, data, tenantId, userRole,
                                        nextCategoryId)
                  IN /\ gated(r, elevated)
                     /\ elevated => r = createCategory(categories, data, tenantId,
                                                        nextCategoryId)
           /\ \A id \in GateIds, data \in UpdateInputs(Descriptions) :
                  LET r == putCategory(categories, products, id, data, tenantId,
                                       userRole)
                  IN /\ gated(r, elevated)
                     /\ elevated => r = updateCategory(categories, products, id,
                                                        data, tenantId)
           /\ \A id \in GateIds, parentId \in GateIds \cup {Null, 0} :
                  LET r == patchCategoryMove(categories, products, id, parentId,
                                             tenantId, userRole)
                  IN /\ gated(r, elevated)
                     /\ elevated => r = moveCategory(categories, products, id,
                                                      parentId, tenantId)
           /\ \A id \in GateIds :
                  LET r == deleteCategoryRoute(categories, products, id, tenantId,
                                               userRole)
                  IN /\ gated(r, userRole = "admin")
                     /\ userRole = "admin" => r = deleteCategory(categories, products,
                                                                  id, tenantId)
           /\ \A route \in ReadRoutes : preHandler(route, userRole)

\* a category without children: a manager may rename it and not delete it,
\* staff may do neither and may read, the admin may delete it
C24_Witness ==
    \E id \in DOMAIN categories :
        LET tenantId == categories[id].tenantId
            rename == [name |-> IF categories[id].name = "Phones"
                                  THEN "Laptops" ELSE "Phones",
                       description |-> UndefinedText, parentId |-> Undefined]
        IN /\ putCategory(categories, products, id, rename, tenantId,
                          "manager").outcome = Ok
           /\ putCategory(categories, products, id, rename, tenantId,
                          "staff").outcome = Forbidden
           /\ deleteCategoryRoute(categories, products, id, tenantId,
                                  "manager").outcome = Forbidden
           /\ deleteCategoryRoute(categories, products, id, tenantId,
                                  "staff").outcome = Forbidden
           /\ deleteCategoryRoute(categories, products, id, tenantId,
                                  "admin").outcome = Ok
           /\ preHandler("path", "staff")

\* ----------------------------------------------------------------- C25
\* C25: in every reachable state wouldCreateCircularReference(categoryId,
\* proposedParentId, tenantId) returns, with true exactly when categoryId
\* is proposedParentId or, for a proposed parent of the tenant, one of its
\* ancestors; so move(X, P) to a category P of X's tenant that is neither
\* X nor a descendant of X is never refused as a cycle.
C25_CycleGuardExact ==
    \A tenantId \in Tenants, categoryId \in CategoryIds, proposedParentId \in CategoryIds :
        LET walk == wouldCreateCircularReference(categories, categoryId,
                                                 proposedParentId, tenantId)
        IN /\ walk.returns
           /\ walk.value <=>
                  \/ categoryId = proposedParentId
                  \/ /\ InTenant(proposedParentId, tenantId)
                     /\ categoryId \in Ancestors(proposedParentId)
           /\ (/\ InTenant(categoryId, tenantId)
               /\ InTenant(proposedParentId, tenantId)
               /\ proposedParentId # categoryId
               /\ proposedParentId \notin Descendants(categoryId))
              => moveCategory(categories, products, categoryId, proposedParentId,
                              tenantId).outcome \notin {Circular, Hangs}

\* a chain of three: the lowest category may be moved under the highest,
\* the highest may not be moved under the lowest
C25_Witness ==
    \E x, q, top \in DOMAIN categories :
        LET tenantId == categories[x].tenantId
        IN /\ categories[x].parentId = q
           /\ categories[q].parentId = top
           /\ ~wouldCreateCircularReference(categories, x, top, tenantId).value
           /\ moveCategory(categories, products, x, top, tenantId).outcome = Ok
           /\ wouldCreateCircularReference(categories, top, x, tenantId).value
           /\ moveCategory(categories, products, top, x, tenantId).outcome = Circular

\* ----------------------------------------------------------------- C26
\* C26: list(tenant, parentId) returns, with parentId absent, all the
\* categories of the tenant, with parentId null those whose parentId is
\* null, with parentId = p those whose parentId is p: rows of the calling
\* tenant only, each once, in ascending order of name, each with the
\* number of its non-deleted products.
C26_ListThreeCases ==
    \A tenantId \in Tenants, parentId \in ListInputs :
        LET mine == {c \in DOMAIN categories : categories[c].tenantId = tenantId}
            selected == IF parentId = Undefined THEN mine
                        ELSE {c \in mine : categories[c].parentId = parentId}
            lists == getCategories(categories, products, tenantId, parentId)
        IN /\ lists # {}
           /\ \A list \in lists :
                  /\ {list[i].id : i \in 1..Len(list)} = selected
                  /\ Len(list) = Cardinality(selected)
                  /\ \A i \in 1..(Len(list) - 1) :
                         NameRank[list[i].name] <= NameRank[list[i + 1].name]
                  /\ \A i \in 1..Len(list) :
                         /\ list[i].name = categories[list[i].id].name
                         /\ list[i].parentId = categories[list[i].id].parentId
                         /\ list[i].productCount = Cardinality(ProductsIn(list[i].id))

\* a tenant with a root that holds a product and a child under it: the
\* three filters select two rows, the root alone, and the child alone
C26_Witness ==
    \E root, child \in DOMAIN categories :
        LET tenantId == categories[root].tenantId
            ids(parentId) == {IdsOf(list) : list \in
                                getCategories(categories, products, tenantId, parentId)}
        IN /\ categories[root].parentId = Null
           /\ categories[child].parentId = root
           /\ ProductsIn(root) # {}
           /\ \A list \in ids(Undefined) : Len(list) = 2
           /\ ids(Null) = {<<root>>}
           /\ ids(root) = {<<child>>}
           /\ \A list \in getCategories(categories, products, tenantId, Null) :
                  list[1].productCount = 1

\* ----------------------------------------------------------------- C27
\* C27: in every reachable state getById(id, tenant) on a category of the
\* tenant returns as children exactly the categories of the same tenant
\* whose parentId is id, with their id and name, and as parentName the name
\* of its parent, a category of the same tenant (null for a root).
C27_GetByIdStaysInTenant ==
    \A id \in DOMAIN categories :
        LET tenantId == categories[id].tenantId
            parentId == categories[id].parentId
            category == getCategoryById(categories, products, id, tenantId)
        IN /\ category.outcome = Ok
           /\ category.children
                  = {[id |-> c, name |-> categories[c].name] :
                        c \in SiblingGroup(tenantId, id)}
           /\ \A child \in category.children : InTenant(child.id, tenantId)
           /\ IF parentId = Null
                 THEN category.parentName = "<null>"
                 ELSE /\ InTenant(parentId, tenantId)
                      /\ category.parentName = categories[parentId].name

\* a root with one child, beside a root of another tenant: the root's
\* children are that child alone and the child's parentName is the root's name
C27_Witness ==
    \E id, parent, foreign \in DOMAIN categories :
        LET tenantId == categories[id].tenantId
        IN /\ categories[id].parentId = parent
           /\ categories[foreign].tenantId # tenantId
           /\ getCategoryById(categories, products, parent, tenantId).children
                  = {[id |-> id, name |-> categories[id].name]}
           /\ getCategoryById(categories, products, parent, tenantId).parentName
                  = "<null>"
           /\ getCategoryById(categories, products, id, tenantId).parentName
                  = categories[parent].name
           /\ getCategoryById(categories, products, id, tenantId).children = {}

\* ----------------------------------------------------------------- C28
\* what a successful update(id, patch) leaves in the table: the same rows,
\* on row id the patch's name, description and parentId where the patch
\* carries them and the stored value where it does not, the same tenantId,
\* and every other row as it was
UpdateWritesPatchOnly ==
    \A id \in DOMAIN categories :
        \A data \in UpdateInputs(Descriptions) :
            LET r == updateCategory(categories, products, id, data,
                                    categories[id].tenantId)
                after == r.categories
            IN r.outcome = Ok =>
                 /\ DOMAIN after = DOMAIN categories
                 /\ after[id].tenantId = categories[id].tenantId
                 /\ after[id].name = IF data.name = UndefinedText
                                       THEN categories[id].name ELSE data.name
                 /\ after[id].description
                        = IF data.description = UndefinedText
                            THEN categories[id].description ELSE data.description
                 /\ after[id].parentId = IF data.parentId = Undefined
                                           THEN categories[id].parentId
                                           ELSE data.parentId
                 /\ \A c \in DOMAIN categories \ {id} : after[c] = categories[c]

\* what a step does to the rows it keeps: tenantId and createdAt stay, and
\* a row whose columns change gets the time of the step as updatedAt while
\* every other row keeps all its columns
StepKeepsIdentity ==
    \A c \in DOMAIN categories \cap DOMAIN categories' :
        /\ categories'[c].tenantId = categories[c].tenantId
        /\ timestamps'[c].createdAt = timestamps[c].createdAt
        /\ (categories'[c] # categories[c] \/ timestamps'[c] # timestamps[c])
             => /\ timestamps'[c].updatedAt = clock
                /\ \A o \in (DOMAIN categories \cap DOMAIN categories') \ {c} :
                       categories'[o] = categories[o] /\ timestamps'[o] = timestamps[o]

\* C28: a successful update(id, patch, tenant) changes, on the row id only,
\* the fields present in the patch and updatedAt: the row's id, tenantId
\* and createdAt never change, fields absent from the patch keep their
\* value, and no other row of any tenant is modified.
C28_UpdateFrame == [](UpdateWritesPatchOnly) /\ [][StepKeepsIdentity]_vars

\* a category created with a description has been updated since, beside a
\* category of another tenant that has not
C28_Witness ==
    \E id, other \in DOMAIN categories :
        /\ categories[id].description = "d"
        /\ timestamps[id].updatedAt > timestamps[id].createdAt
        /\ categories[other].tenantId # categories[id].tenantId
        /\ timestamps[other].updatedAt = timestamps[other].createdAt

\* ----------------------------------------------------------------- C29
\* C29: when a create of a child under P, or a move of a category under P,
\* has validated that P exists and a delete of P removes P before the
\* create or move writes, the write does not leave a category whose
\* parentId names the deleted P.
C29_DeletedParentNeverReferenced ==
    [][\A i, d \in DOMAIN requests :
          (/\ requests[d].op = "delete" /\ requests[d].outcome = Ok
           /\ requests[d].id \notin DOMAIN categories
           /\ requests[i].op \in {"create", "update"}
           /\ requests[i].pc \in {"insert", "update"}
           /\ requests[i].data.parentId = requests[d].id
           /\ requests'[i].outcome = Ok)
          => LET c == requests'[i].id
             IN ~(/\ c \in DOMAIN categories'
                  /\ categories'[c].parentId = requests[d].id
                  /\ requests[d].id \notin DOMAIN categories')]_vars

\* ----------------------------------------------------------------- C30
\* C30: when a delete of category X has removed X after an update or move of
\* X read it and before that update or move has finished, no later query of
\* the update or move makes it report success or puts a row with X's id in
\* the table.
C30_UpdateOfDeletedRowFails ==
    [][\A i \in DOMAIN requests :
          (/\ requests[i].op = "update"
           /\ requests[i].pc # Done
           /\ requests[i].id \notin DOMAIN categories
           /\ requests'[i] # requests[i])
          => /\ requests'[i].outcome # Ok
             /\ requests'[i].pc = Done
                  => requests'[i].outcome \in {FailedToUpdate, ParentNotFound,
                                               Circular, DuplicateName}
             /\ requests[i].id \notin DOMAIN categories']_vars

\* an update that read X and reached its write has ended with 'Failed to
\* update category' beside a finished delete of X, and X is not in the table
C30_Witness ==
    \E i, d \in DOMAIN requests :
        /\ requests[i].op = "update"
        /\ requests[i].outcome = FailedToUpdate
        /\ requests[d].op = "delete"
        /\ requests[d].outcome = Ok
        /\ requests[d].id = requests[i].id
        /\ requests[i].id \notin DOMAIN categories
====
